---- MODULE Spec2Model ----
(***************************************************************************)
(* airtop-mcp: the transport gateway (index.ts, main), the tool handlers   *)
(* (mcp-server.ts, createMcpServer) and the error normalizer               *)
(* (reportAirtopErrors).                                                   *)
(*                                                                         *)
(* The specifications share the variables:                                 *)
(*   Spec          streaming mode: GET /sse, stream close, POST /messages  *)
(*   ToolSpec      tool invocations against the backend, sessionRegistry   *)
(*   ToolFairSpec  ToolSpec with every pending backend call settling       *)
(*   NormSpec      reportAirtopErrors as a pure function of its argument   *)
(*   MainSpec      a process from main() on, in the mode its arguments pick*)
(*   LogSpec       the log of createSessionWithOptions on two inputs       *)
(***************************************************************************)
EXTENDS Integers, Sequences, FiniteSets, TLC

VARIABLES
    transports,       \* index.ts: const transports: {[sessionId]: SSEServerTransport} = {}
    opened,           \* connection ids handed out by GET /sse so far
    closed,           \* connection ids whose res "close" event has fired
    nextConn,         \* number of the next SSEServerTransport to be constructed
    serverTransport,  \* the transport the one shared server object is connected to
    reqs,             \* POST /messages requests, by request number
    sessionRegistry,  \* mcp-server.ts: const sessionRegistry = new Map<string, SessionMetadata>()
    inv,              \* the tool invocation in progress, or the last one completed
    nin,              \* the argument handed to reportAirtopErrors
    nout,             \* what reportAirtopErrors did with it
    proc,             \* the process: its arguments and environment, how far main() got
    logrun            \* two createSessionWithOptions calls and what each wrote to the log

gatewayVars == <<transports, opened, closed, nextConn, serverTransport, reqs>>
toolVars == <<sessionRegistry, inv>>
normVars == <<nin, nout>>
procVars == <<proc>>
logVars == <<logrun>>
vars == <<transports, opened, closed, nextConn, serverTransport, reqs,
          sessionRegistry, inv, nin, nout, proc, logrun>>

-----------------------------------------------------------------------------
(* Bounds *)

MaxConns == 2     \* GET /sse requests served in one run
MaxReqs == 2      \* POST /messages requests served in one run
MaxSessions == 2  \* backend session ids in play
MaxErrs == 2      \* length of an error collection handed to reportAirtopErrors

-----------------------------------------------------------------------------
(* Streaming mode: the Connection Registry *)

\* transport.sessionId: a fresh id per SSEServerTransport.
ConnId(i) == "c" \o ToString(i)

ConnIds == {ConnId(i) : i \in 1..MaxConns}

\* Names every object literal inherits from Object.prototype: transports is
\* created as {} and read with transports[sessionId].
ProtoKeys == {"constructor", "__proto__"}

\* The values the sessionId query parameter of a POST /messages can take: an id
\* handed out (or to be handed out) by GET /sse, an id nobody was given, or a
\* name on the prototype chain.
QueryKeys == ConnIds \cup {"unknown"} \cup ProtoKeys

ReqIds == 1..MaxReqs

NoConn == "none"

NewReq ==
    [pc |-> "new", key |-> NoConn, own |-> FALSE, late |-> FALSE,
     status |-> 0, called |-> FALSE, dispatched |-> FALSE,
     dispatchedLive |-> TRUE, writtenTo |-> NoConn, writtenLive |-> TRUE]

\* transports[sessionId] on a plain object: an own entry, else whatever the
\* prototype chain holds under that name, else undefined.
Lookup(reg, key) ==
    IF key \in DOMAIN reg THEN [kind |-> "transport", id |-> reg[key]]
    ELSE IF key \in ProtoKeys THEN [kind |-> "inherited", id |-> NoConn]
    ELSE [kind |-> "undefined", id |-> NoConn]

\* if (transport): every object and function is truthy, undefined is not.
Truthy(v) == v.kind # "undefined"

Without(reg, key) == [k \in DOMAIN reg \ {key} |-> reg[k]]

GatewayInit ==
    /\ transports = <<>>
    /\ opened = {}
    /\ closed = {}
    /\ nextConn = 1
    /\ serverTransport = NoConn
    /\ reqs = [r \in ReqIds |-> NewReq]

\* app.get("/sse"): construct the transport, store it under its id, register
\* the close handler, connect the shared server to it.
OpenSSE ==
    /\ nextConn <= MaxConns
    /\ LET id == ConnId(nextConn) IN
         /\ transports' = (id :> id) @@ transports
         /\ opened' = opened \cup {id}
         /\ serverTransport' = id
    /\ nextConn' = nextConn + 1
    /\ UNCHANGED <<closed, reqs>>
    /\ UNCHANGED <<toolVars, normVars, procVars, logVars>>

\* A close handler that forgets the delete.
CloseStream_KeepEntry(c) ==
    /\ c \in opened \ closed
    /\ closed' = closed \cup {c}
    /\ UNCHANGED <<transports, opened, nextConn, serverTransport, reqs>>
    /\ UNCHANGED <<toolVars, normVars, procVars, logVars>>

\* res.on("close", () => { delete transports[transport.sessionId]; })
CloseStream(c) ==
    /\ c \in opened \ closed
    /\ transports' = Without(transports, c)
    /\ closed' = closed \cup {c}
    /\ UNCHANGED <<opened, nextConn, serverTransport, reqs>>
    /\ UNCHANGED <<toolVars, normVars, procVars, logVars>>

\* A POST handler whose else branch ends the request without the 400.
PostMessages_No400(r, key) ==
    /\ reqs[r].pc = "new"
    /\ LET transport == Lookup(transports, key)
           base == [reqs[r] EXCEPT !.key = key,
                                   !.own = key \in DOMAIN transports,
                                   !.late = key \in closed]
       IN  reqs' = [reqs EXCEPT ![r] =
                IF Truthy(transport)
                THEN IF transport.kind = "transport"
                     THEN [base EXCEPT !.pc = "handling", !.called = TRUE]
                     ELSE [base EXCEPT !.pc = "threw"]
                ELSE [base EXCEPT !.pc = "rejected", !.status = 200]]
    /\ UNCHANGED <<transports, opened, closed, nextConn, serverTransport>>
    /\ UNCHANGED <<toolVars, normVars, procVars, logVars>>

\* app.post("/messages") up to its await: read the query parameter, look the
\* transport up, then either call transport.handlePostMessage or answer 400.
\* Calling handlePostMessage on an inherited value throws a TypeError inside
\* the async handler, which answers nothing.
PostMessages(r, key) ==
    /\ reqs[r].pc = "new"
    /\ LET transport == Lookup(transports, key)
           base == [reqs[r] EXCEPT !.key = key,
                                   !.own = key \in DOMAIN transports,
                                   !.late = key \in closed]
       IN  reqs' = [reqs EXCEPT ![r] =
                IF Truthy(transport)
                THEN IF transport.kind = "transport"
                     THEN [base EXCEPT !.pc = "handling", !.called = TRUE]
                     ELSE [base EXCEPT !.pc = "threw"]
                ELSE [base EXCEPT !.pc = "rejected", !.status = 400]]
    /\ UNCHANGED <<transports, opened, closed, nextConn, serverTransport>>
    /\ UNCHANGED <<toolVars, normVars, procVars, logVars>>

\* await transport.handlePostMessage(req, res): once the body has been read the
\* message is accepted (202) and handed to the server, which calls the tool
\* handler; the handler issues its backend call and suspends.
Dispatch(r) ==
    /\ reqs[r].pc = "handling"
    /\ reqs' = [reqs EXCEPT ![r] =
           [@ EXCEPT !.pc = "backend", !.status = 202, !.dispatched = TRUE,
                     !.dispatchedLive = reqs[r].key \in DOMAIN transports]]
    /\ UNCHANGED <<transports, opened, closed, nextConn, serverTransport>>
    /\ UNCHANGED <<toolVars, normVars, procVars, logVars>>

\* The backend call returns and the handler's result is sent: the one server
\* object sends on the transport it is connected to, which is the one of the
\* latest server.connect(transport).
Respond(r) ==
    /\ reqs[r].pc = "backend"
    /\ reqs' = [reqs EXCEPT ![r] =
           [@ EXCEPT !.pc = "done", !.writtenTo = serverTransport,
                     !.writtenLive = serverTransport \in DOMAIN transports]]
    /\ UNCHANGED <<transports, opened, closed, nextConn, serverTransport>>
    /\ UNCHANGED <<toolVars, normVars, procVars, logVars>>

-----------------------------------------------------------------------------
(* The Error Normalizer: reportAirtopErrors *)

\* JavaScript values as far as reportAirtopErrors tells them apart: k is the
\* kind of value, s the string itself or the object's message property.
JNull == [k |-> "null", s |-> ""]
JUndefined == [k |-> "undefined", s |-> ""]
JString(str) == [k |-> "string", s |-> str]
JWithMessage(m) == [k |-> "message", s |-> m]   \* {message: m}
JEmptyObject == [k |-> "object", s |-> ""]      \* {}
JCyclic == [k |-> "cyclic", s |-> ""]           \* o with o.self = o
JArray(items) == [k |-> "array", items |-> items]

Banner == "Errors from the API:"

\* if (!e): null, undefined and the empty string are falsy.
Falsy(e) ==
    \/ e.k \in {"null", "undefined"}
    \/ (e.k = "string" /\ e.s = "")

\* JSON.stringify(e) for an element without a message: the text, or the
\* TypeError it throws on a circular structure.
JsonStringify(e) ==
    CASE e.k = "object" -> [threw |-> FALSE, text |-> "{}"]
      [] e.k = "cyclic" -> [threw |-> TRUE, text |-> ""]
      [] e.k = "message" -> [threw |-> FALSE,
                             text |-> "{\"message\":\"" \o e.s \o "\"}"]
      [] e.k = "string" -> [threw |-> FALSE, text |-> "\"" \o e.s \o "\""]
      [] OTHER -> [threw |-> FALSE, text |-> "null"]

\* The callback of errors.map(...).
ElementText(e) ==
    IF Falsy(e) THEN [threw |-> FALSE, text |-> "Unknown error (empty)"]
    ELSE IF e.k = "string" THEN [threw |-> FALSE, text |-> e.s]
    ELSE IF e.k = "message" THEN [threw |-> FALSE, text |-> e.s]
    ELSE JsonStringify(e)       \* e.message ?? JSON.stringify(e)

\* Array.prototype.join("\n")
RECURSIVE JoinLines(_)
JoinLines(texts) ==
    IF texts = <<>> THEN ""
    ELSE IF Len(texts) = 1 THEN texts[1]
    ELSE texts[1] \o "\n" \o JoinLines(Tail(texts))

\* String(errors) for what is not a non-empty array.
StringOf(v) ==
    CASE v.k = "array" -> ""            \* String([]) of the empty array
      [] v.k = "null" -> "null"
      [] v.k = "undefined" -> "undefined"
      [] v.k = "string" -> v.s
      [] OTHER -> "[object Object]"

ErrorResult(text) ==
    [content |-> <<[type |-> "text", text |-> text]>>, isError |-> TRUE]

\* A result without the isError property (isError defaults to false).
TextResult(text) ==
    [content |-> <<[type |-> "text", text |-> text]>>, isError |-> FALSE]

NoResult == [content |-> <<>>, isError |-> FALSE]

Returned(result) == [threw |-> FALSE, result |-> result]
Threw == [threw |-> TRUE, result |-> NoResult]

\* export function reportAirtopErrors(errors)
ReportAirtopErrors(errors) ==
    IF errors.k = "array" /\ Len(errors.items) > 0
    THEN LET texts == [i \in 1..Len(errors.items) |-> ElementText(errors.items[i])]
         IN  IF \E i \in 1..Len(texts) : texts[i].threw
             THEN Threw
             ELSE Returned(ErrorResult(Banner \o "\n" \o
                      JoinLines([i \in 1..Len(texts) |-> texts[i].text])))
    ELSE Returned(ErrorResult(Banner \o "\n" \o StringOf(errors)))

\* The elements and arguments tried.
NormElements ==
    {JNull, JUndefined, JString(""), JString("plain string"),
     JWithMessage("x"), JEmptyObject, JCyclic}

RECURSIVE SeqsUpTo(_, _)
SeqsUpTo(S, n) ==
    IF n = 0 THEN {<<>>}
    ELSE LET shorter == SeqsUpTo(S, n - 1)
         IN  shorter \cup {Append(q, e) : q \in {x \in shorter : Len(x) = n - 1}, e \in S}

NormInputs ==
    {JArray(items) : items \in SeqsUpTo(NormElements, MaxErrs)}
        \cup {JNull, JUndefined, JString("plain string"), JEmptyObject}

NormIdle ==
    /\ nin = JNull
    /\ nout = [state |-> "idle", threw |-> FALSE, result |-> NoResult]

NormInit ==
    /\ nin \in NormInputs
    /\ nout = [state |-> "pending", threw |-> FALSE, result |-> NoResult]

\* One call of reportAirtopErrors(nin).
Normalize ==
    /\ nout.state = "pending"
    /\ LET r == ReportAirtopErrors(nin)
       IN  nout' = [state |-> "called", threw |-> r.threw, result |-> r.result]
    /\ UNCHANGED <<nin, gatewayVars, toolVars, procVars, logVars>>

\* The next argument is handed in.
NextErrors ==
    /\ nout.state = "called"
    /\ nin' \in NormInputs
    /\ nout' = [state |-> "pending", threw |-> FALSE, result |-> NoResult]
    /\ UNCHANGED <<gatewayVars, toolVars, procVars, logVars>>

NormNext == Normalize \/ NextErrors

-----------------------------------------------------------------------------
(* The tools registered by createMcpServer *)

SessionId(i) == "s" \o ToString(i)
SessionIds == {SessionId(i) : i \in 1..MaxSessions}
ProfileNames == {"p1"}

\* A server with one more registration, under a name outside the catalog.
Tools_Extra ==
    {"createSession", "createSessionWithOptions", "createWindow", "pageQuery",
     "terminateSession", "getWindowInfo", "paginatedExtraction", "click",
     "scroll", "type", "scrape", "fileInput", "monitorForCondition",
     "noSuchTool"}

\* The names createMcpServer registers with server.tool.
Tools ==
    {"createSession", "createSessionWithOptions", "createWindow", "pageQuery",
     "terminateSession", "getWindowInfo", "paginatedExtraction", "click",
     "scroll", "type", "scrape", "fileInput", "monitorForCondition"}

\* Argument values: t is the JavaScript type, v the string when it is one.
Absent == [t |-> "undefined", v |-> ""]
ANumber == [t |-> "number", v |-> ""]
AnObject == [t |-> "object", v |-> ""]
AString(str) == [t |-> "string", v |-> str]

StrReq == [type |-> "string", optional |-> FALSE]
StrOpt == [type |-> "string", optional |-> TRUE]
NumOpt == [type |-> "number", optional |-> TRUE]
ObjOpt == [type |-> "object", optional |-> TRUE]

\* A terminateSession schema whose sessionId was made optional.
TerminateSessionSchema_Optional == [sessionId |-> StrOpt]

\* terminateSession: { sessionId: z.string() }
TerminateSessionSchema == [sessionId |-> StrReq]

\* The zod shape handed to server.tool for each tool (none for createSession).
\* profileName stands for configuration.profileName, the one member of the
\* configuration object the handler reads.
ToolSchema(tool) ==
    CASE tool = "createSession" -> <<>>
      [] tool = "createSessionWithOptions" ->
            [configuration |-> ObjOpt, profileName |-> StrOpt]
      [] tool = "createWindow" -> [sessionId |-> StrReq, url |-> StrReq]
      [] tool = "pageQuery" ->
            [sessionId |-> StrReq, windowId |-> StrReq, prompt |-> StrReq]
      [] tool = "terminateSession" -> TerminateSessionSchema
      [] tool = "getWindowInfo" -> [sessionId |-> StrReq, windowId |-> StrReq]
      [] tool = "paginatedExtraction" ->
            [sessionId |-> StrReq, windowId |-> StrReq, prompt |-> StrReq,
             outputSchema |-> StrOpt]
      [] tool = "click" ->
            [sessionId |-> StrReq, windowId |-> StrReq,
             elementDescription |-> StrReq, coordinate |-> ObjOpt]
      [] tool = "scroll" ->
            [sessionId |-> StrReq, windowId |-> StrReq,
             elementDescription |-> StrOpt]
      [] tool = "type" ->
            [sessionId |-> StrReq, windowId |-> StrReq, text |-> StrReq,
             elementDescription |-> StrOpt]
      [] tool = "scrape" -> [sessionId |-> StrReq, windowId |-> StrReq]
      [] tool = "fileInput" ->
            [sessionId |-> StrReq, windowId |-> StrReq,
             elementDescription |-> StrReq, filePath |-> StrReq]
      [] tool = "monitorForCondition" ->
            [sessionId |-> StrReq, windowId |-> StrReq, condition |-> StrReq,
             timeoutSeconds |-> NumOpt]
      [] OTHER -> <<>>

Fields(tool) == DOMAIN ToolSchema(tool)

\* The values tried for a field of the arguments.
FieldValues(f) ==
    CASE f = "sessionId" -> {Absent, ANumber} \cup {AString(x) : x \in SessionIds}
      [] f = "profileName" -> {Absent, ANumber} \cup {AString(x) : x \in ProfileNames}
      [] f \in {"configuration", "coordinate"} -> {Absent, ANumber, AnObject}
      [] OTHER -> {Absent, ANumber, AString("x")}

\* profileName is a member of configuration: there is none without the object.
ArgsOf(tool) ==
    {a \in [Fields(tool) -> UNION {FieldValues(f) : f \in Fields(tool)}] :
        /\ \A f \in Fields(tool) : a[f] \in FieldValues(f)
        /\ (tool = "createSessionWithOptions" /\ a["configuration"] # AnObject)
               => a["profileName"] = Absent}

\* The schema check on the arguments: an absent field must be optional, a
\* present one of the declared type. A present configuration that is no object
\* fails; the members of an absent configuration are not looked at.
InputValid(tool, a) ==
    LET schema == ToolSchema(tool) IN
    \A f \in DOMAIN schema :
        IF a[f].t = "undefined" THEN schema[f].optional
        ELSE a[f].t = schema[f].type

HasSchema(tool) == tool # "createSession"

\* What the backend client does with a call: it throws, or it resolves to a
\* response with an optional errors array and data carrying an id.
NoErrors == [present |-> FALSE, items |-> <<>>]
ErrorCollections ==
    {NoErrors, [present |-> TRUE, items |-> <<>>],
     [present |-> TRUE, items |-> <<JWithMessage("boom")>>]}

BackendThrow == [threw |-> TRUE, errors |-> NoErrors, id |-> ""]
NoOutcome == [threw |-> FALSE, errors |-> NoErrors, id |-> ""]

\* sessions.create answers with the new session's id (or data without one);
\* the other calls with data of their own.
DataIds(tool) ==
    IF tool \in {"createSession", "createSessionWithOptions"}
    THEN SessionIds \cup {""}
    ELSE {"d1"}

BackendOutcomes(tool) ==
    {BackendThrow} \cup
    {[threw |-> FALSE, errors |-> e, id |-> d] :
        e \in ErrorCollections, d \in DataIds(tool)}

\* String(err) for the error a backend call throws.
ThrownText == "Error: boom"

\* JSON.stringify(x.data)
StringifyData(id) ==
    IF id = "" THEN "{}" ELSE "{\"id\":\"" \o id \o "\"}"

RECURSIVE StringifyItems(_)
StringifyItems(items) ==
    IF items = <<>> THEN ""
    ELSE IF Len(items) = 1 THEN JsonStringify(items[1]).text
    ELSE JsonStringify(items[1]).text \o "," \o StringifyItems(Tail(items))

\* JSON.stringify of a whole response (paginatedExtraction).
StringifyResponse(resp) ==
    "{\"data\":" \o StringifyData(resp.id) \o
    (IF resp.errors.present
     THEN ",\"errors\":[" \o StringifyItems(resp.errors.items) \o "]"
     ELSE "") \o "}"

\* How each handler tests the response's errors: if (x.errors), if
\* (x.errors?.length), or not at all.
ErrorTest(tool) ==
    CASE tool \in {"createWindow", "getWindowInfo"} -> "length"
      [] tool \in {"terminateSession", "paginatedExtraction", "fileInput"} -> "none"
      [] OTHER -> "truthy"

ErrorsSeen(tool, resp) ==
    CASE ErrorTest(tool) = "truthy" -> resp.errors.present
      [] ErrorTest(tool) = "length" ->
            resp.errors.present /\ Len(resp.errors.items) > 0
      [] OTHER -> FALSE

\* The handlers that wrap their backend call in try/catch.
Catches(tool) == tool \in {"pageQuery", "click", "scrape", "fileInput"}

\* A catch block that forgets isError: true.
CatchResult_NoFlag(tool) ==
    IF tool = "fileInput"
    THEN TextResult("File upload failed: " \o ThrownText)
    ELSE TextResult("Internal error during " \o tool \o ": " \o ThrownText)

\* The result built in a handler's catch block.
CatchResult(tool) ==
    IF tool = "fileInput"
    THEN ErrorResult("File upload failed: " \o ThrownText)
    ELSE ErrorResult("Internal error during " \o tool \o ": " \o ThrownText)

\* The result a handler returns when it sees no errors.
SuccessResult(tool, resp) ==
    CASE tool = "terminateSession" -> TextResult("Session terminated successfully")
      [] tool = "paginatedExtraction" -> TextResult(StringifyResponse(resp))
      [] tool = "fileInput" ->
            TextResult("{\"fileId\":\"" \o resp.id \o
                       "\",\"success\":true,\"message\":\"File uploaded successfully\"}")
      [] OTHER -> TextResult(StringifyData(resp.id))

\* A handler from the return of its (first) backend call to its own return or
\* throw: catch or rethrow, report the errors it tests for, else success.
HandlerReturn(tool, outcome) ==
    IF outcome.threw
    THEN IF Catches(tool) THEN Returned(CatchResult(tool)) ELSE Threw
    ELSE IF ErrorsSeen(tool, outcome)
         THEN LET r == ReportAirtopErrors(JArray(outcome.errors.items))
              IN  IF r.threw /\ Catches(tool) THEN Returned(CatchResult(tool)) ELSE r
         ELSE Returned(SuccessResult(tool, outcome))

\* The tool dispatch that server.tool registers the handler with: an exception
\* of the handler becomes an error result.
Boundary(h) ==
    IF h.threw THEN Returned(ErrorResult("boom")) ELSE h

\* The dispatch's answer to arguments that fail the schema.
ValidationFailure(tool) ==
    Returned(ErrorResult("Invalid arguments for tool " \o tool))

\* The airtopClient method a handler awaits first.
BackendOp(tool) ==
    CASE tool \in {"createSession", "createSessionWithOptions"} -> "sessions.create"
      [] tool = "createWindow" -> "windows.create"
      [] tool = "terminateSession" -> "sessions.terminate"
      [] tool = "scrape" -> "windows.scrapeContent"
      [] tool = "fileInput" -> "windows.uploadFileAndSelectInput"
      [] tool = "monitorForCondition" -> "windows.monitor"
      [] OTHER -> "windows." \o tool

SaveOp == "sessions.saveProfileOnTermination"

\* A handler that issues its backend call a second time.
FirstCalls_Again(tool) == <<BackendOp(tool), BackendOp(tool)>>

\* The backend calls a handler has issued when it first suspends.
FirstCalls(tool) == <<BackendOp(tool)>>

\* A createSessionWithOptions that records the session and asks for nothing.
CallsOnTrack_NoSave(calls) == calls

\* await airtopClient.sessions.saveProfileOnTermination(id, profileName),
\* issued right after sessionRegistry.set.
CallsOnTrack(calls) == Append(calls, SaveOp)

\* A terminateSession that leaves the registry alone.
Release_Nothing(reg, sessionId) == reg

\* A terminateSession that empties the registry.
Release_Clear(reg, sessionId) == <<>>

\* sessionRegistry.delete(sessionId)
Release(reg, sessionId) == Without(reg, sessionId)

\* A name no server.tool call registered.
Unregistered == "noSuchTool"

UnknownTool == "UnknownTool"

IdleInv ==
    [pc |-> "idle", tool |-> "", args |-> <<>>, regBefore |-> <<>>,
     handlerCalled |-> FALSE, backendCalls |-> 0, calls |-> <<>>,
     outcome |-> NoOutcome, saveThrew |-> FALSE, raised |-> FALSE,
     failure |-> "", result |-> NoResult]

ToolIdle ==
    /\ sessionRegistry = <<>>
    /\ inv = IdleInv

\* A tool call arrives: the arguments are checked against the schema; if they
\* pass, the handler runs up to its first await. terminateSession deletes the
\* session's registry entry before it awaits sessions.terminate.
Invoke(tool, a) ==
    /\ inv.pc \in {"idle", "done"}
    /\ tool \in Tools
    /\ LET fresh == [IdleInv EXCEPT !.tool = tool, !.args = a,
                                    !.regBefore = sessionRegistry]
       IN  IF HasSchema(tool) /\ ~InputValid(tool, a)
           THEN /\ inv' = [fresh EXCEPT !.pc = "done",
                                        !.result = ValidationFailure(tool).result]
                /\ UNCHANGED sessionRegistry
           ELSE /\ inv' = [fresh EXCEPT !.pc = "backend", !.handlerCalled = TRUE,
                                        !.backendCalls = 1,
                                        !.calls = FirstCalls(tool)]
                /\ sessionRegistry' =
                       IF tool = "terminateSession"
                       THEN Release(sessionRegistry, a["sessionId"].v)
                       ELSE sessionRegistry
    /\ UNCHANGED <<gatewayVars, normVars, procVars, logVars>>

\* A call names a tool that was never registered: the dispatch fails it with
\* UnknownTool before any handler is looked at.
InvokeUnknown(name) ==
    /\ inv.pc \in {"idle", "done"}
    /\ name \notin Tools
    /\ inv' = [IdleInv EXCEPT !.pc = "done", !.tool = name,
                              !.regBefore = sessionRegistry,
                              !.raised = TRUE, !.failure = UnknownTool]
    /\ UNCHANGED <<sessionRegistry, gatewayVars, normVars, procVars, logVars>>

\* A createSessionWithOptions that records every session it creates.
Tracks_EverySession(tool, a, outcome) ==
    /\ tool = "createSessionWithOptions"
    /\ outcome.id # ""

\* if (session.data?.id && configuration?.profileName)
Tracks(tool, a, outcome) ==
    /\ tool = "createSessionWithOptions"
    /\ outcome.id # ""
    /\ a["profileName"].t = "string"
    /\ a["profileName"].v # ""

\* The handler's backend call settles. createSessionWithOptions, when it got a
\* session id and was given a profile name, records the session and goes on to
\* await saveProfileOnTermination; every other path returns or throws here.
BackendReturn(outcome) ==
    /\ inv.pc = "backend"
    /\ outcome \in BackendOutcomes(inv.tool)
    /\ LET h == HandlerReturn(inv.tool, outcome)
           seen == [inv EXCEPT !.outcome = outcome]
       IN  IF /\ ~outcome.threw
              /\ ~ErrorsSeen(inv.tool, outcome)
              /\ Tracks(inv.tool, inv.args, outcome)
           THEN /\ sessionRegistry' =
                       (outcome.id :> [sessionId |-> outcome.id,
                                       profileName |-> inv.args["profileName"].v])
                           @@ sessionRegistry
                /\ inv' = [seen EXCEPT !.pc = "save", !.backendCalls = 2,
                                       !.calls = CallsOnTrack(inv.calls)]
           ELSE /\ inv' = [seen EXCEPT !.pc = "done", !.raised = Boundary(h).threw,
                                       !.result = Boundary(h).result]
                /\ UNCHANGED sessionRegistry
    /\ UNCHANGED <<gatewayVars, normVars, procVars, logVars>>

\* A createSessionWithOptions that reports the failed profile-save call.
SaveResult_Fails(tool, outcome, threw) ==
    IF threw
    THEN ErrorResult("Failed to configure profile saving: " \o ThrownText)
    ELSE SuccessResult(tool, outcome)

\* What createSessionWithOptions returns after its try/catch around
\* saveProfileOnTermination: JSON.stringify(session.data) either way.
SaveResult(tool, outcome, threw) == SuccessResult(tool, outcome)

\* await saveProfileOnTermination(...) settles inside its try/catch: a failure
\* is logged and the session data is returned all the same.
SaveReturn(threw) ==
    /\ inv.pc = "save"
    /\ inv' = [inv EXCEPT !.pc = "done", !.saveThrew = threw,
                          !.result = SaveResult(inv.tool, inv.outcome, threw)]
    /\ UNCHANGED <<sessionRegistry, gatewayVars, normVars, procVars, logVars>>

ToolNext ==
    \/ \E tool \in Tools : \E a \in ArgsOf(tool) : Invoke(tool, a)
    \/ InvokeUnknown(Unregistered)
    \/ \E outcome \in UNION {BackendOutcomes(tool) : tool \in Tools} :
           BackendReturn(outcome)
    \/ \E threw \in BOOLEAN : SaveReturn(threw)

-----------------------------------------------------------------------------
(* What createSessionWithOptions writes to the log *)

ABoolean == [t |-> "boolean", v |-> "true"]
ProxyObject == [t |-> "object", v |-> "proxy-credentials"]

\* Valid arguments of createSessionWithOptions with the sensitive members of
\* the configuration spelled out: proxy (true or an object) and baseProfileId.
LogArgs ==
    {a \in [{"configuration", "profileName", "proxy", "baseProfileId"} ->
               {Absent, AnObject, ABoolean, ProxyObject, AString("base-profile")}
                   \cup {AString(p) : p \in ProfileNames}] :
        /\ a["configuration"] \in {Absent, AnObject}
        /\ a["profileName"] \in {Absent} \cup {AString(p) : p \in ProfileNames}
        /\ a["proxy"] \in {Absent, ABoolean, ProxyObject}
        /\ a["baseProfileId"] \in {Absent, AString("base-profile")}
        /\ a["configuration"] = Absent =>
               (a["profileName"] = Absent /\ a["proxy"] = Absent
                    /\ a["baseProfileId"] = Absent)}

\* How console.warn shows a member of the logged object.
Shown(x) == IF x.t = "undefined" THEN "undefined" ELSE x.v

\* A request log that prints the configuration as it came.
RequestLog_WholeConfiguration(a) ==
    <<"createSessionWithOptions request", Shown(a["profileName"]),
      Shown(a["proxy"]), Shown(a["baseProfileId"])>>

\* console.warn("createSessionWithOptions request", { profileName,
\* solveCaptcha, timeoutMinutes, extensionIds }): of the members modelled here
\* only profileName is among them.
RequestLog(a) ==
    <<"createSessionWithOptions request", Shown(a["profileName"])>>

\* Every console call of one createSessionWithOptions invocation, in order:
\* the request, then the reported errors (reportAirtopErrors), or the outcome
\* of the profile-save call when the session is tracked.
HandlerLog(a, outcome, saveThrew) ==
    <<RequestLog(a)>> \o
    (IF outcome.threw THEN <<>>
     ELSE IF ErrorsSeen("createSessionWithOptions", outcome)
     THEN <<<<"Airtop API returned errors:",
              "[" \o StringifyItems(outcome.errors.items) \o "]">>>>
     ELSE IF Tracks("createSessionWithOptions", a, outcome)
     THEN IF saveThrew
          THEN <<<<"Failed to configure profile saving: " \o ThrownText>>>>
          ELSE <<<<"Profile saving configured for session " \o outcome.id \o
                      " with profile " \o a["profileName"].v>>>>
     ELSE <<>>)

NoLogRun ==
    [state |-> "idle", a |-> <<>>, b |-> <<>>, outcome |-> NoOutcome,
     saveThrew |-> FALSE, logA |-> <<>>, logB |-> <<>>]

LogIdle == logrun = NoLogRun

\* Two invocations that agree on everything but proxy and baseProfileId.
LogPairs ==
    {p \in LogArgs \X LogArgs :
        /\ p[1]["configuration"] = p[2]["configuration"]
        /\ p[1]["profileName"] = p[2]["profileName"]}

LogInit ==
    logrun \in {[NoLogRun EXCEPT !.state = "pending", !.a = p[1], !.b = p[2]] :
                   p \in LogPairs}

\* Both invocations run against the same backend answers.
LogBoth(outcome, saveThrew) ==
    /\ logrun.state = "pending"
    /\ outcome \in BackendOutcomes("createSessionWithOptions")
    /\ logrun' = [logrun EXCEPT
           !.state = "logged", !.outcome = outcome, !.saveThrew = saveThrew,
           !.logA = HandlerLog(logrun.a, outcome, saveThrew),
           !.logB = HandlerLog(logrun.b, outcome, saveThrew)]
    /\ UNCHANGED <<gatewayVars, toolVars, normVars, procVars>>

LogNext ==
    \E outcome \in BackendOutcomes("createSessionWithOptions"), threw \in BOOLEAN :
        LogBoth(outcome, threw)

-----------------------------------------------------------------------------
(* Startup: main() of index.ts *)

\* The command-line arguments main() looks for.
Flags == {"--help", "-h", "--version", "-v", "--listen"}

\* process.env.AIRTOP_API_KEY: unset, empty, or a key.
KeyUnset == [set |-> FALSE, v |-> ""]
KeyOf(str) == [set |-> TRUE, v |-> str]
ApiKeys == {KeyUnset, KeyOf(""), KeyOf("key")}

\* if (!apiKey)
KeyMissing(key) == ~key.set \/ key.v = ""

WantsHelp(argv) == "--help" \in argv \/ "-h" \in argv

\* A version test that forgets the short flag.
WantsVersion_LongOnly(argv) == "--version" \in argv

WantsVersion(argv) == "--version" \in argv \/ "-v" \in argv

\* A main() that looks for the flag the README names.
Listen_ServerFlag(argv) == "--server" \in argv

\* const listen = process.argv.includes("--listen")
Listen(argv) == "--listen" \in argv

\* A registration list in which scroll was registered under click's name.
Registrations_Duplicate ==
    <<"createSession", "createSessionWithOptions", "createWindow", "pageQuery",
      "terminateSession", "getWindowInfo", "paginatedExtraction", "click",
      "click", "type", "scrape", "fileInput", "monitorForCondition">>

\* The server.tool calls of createMcpServer, in the order they are made.
Registrations ==
    <<"createSession", "createSessionWithOptions", "createWindow", "pageQuery",
      "terminateSession", "getWindowInfo", "paginatedExtraction", "click",
      "scroll", "type", "scrape", "fileInput", "monitorForCondition">>

\* server.tool(name, ...) refuses a name that is already registered.
AlreadyRegistered(name, names) == name \in names

\* The registrations made one after the other; the first refused one throws
\* out of createMcpServer.
RECURSIVE Register(_, _)
Register(calls, names) ==
    IF calls = <<>> THEN [threw |-> FALSE, names |-> names]
    ELSE IF AlreadyRegistered(Head(calls), names)
         THEN [threw |-> TRUE, names |-> names]
         ELSE Register(Tail(calls), names \cup {Head(calls)})

\* createMcpServer(apiKey, PORT) as far as the tool registry goes.
CreateMcpServer == Register(Registrations, {})

\* process.env.PORT: unset, or another port.
PortUnset == [set |-> FALSE, v |-> ""]
PortEnvs == {PortUnset, [set |-> TRUE, v |-> "8080"]}

\* export const PORT = 3456
PORT == "3456"

\* app.listen(PORT)
ListenPort(portEnv) == PORT

NoExit == "none"

StdioConn == "stdio"

ProcStart(argv, key, portEnv) ==
    [pc |-> "start", argv |-> argv, apiKey |-> key, portEnv |-> portEnv,
     exitCode |-> NoExit, mode |-> "none", created |-> FALSE,
     registered |-> {}, port |-> "", out |-> ""]

\* A process that main() has brought up with --listen and a key.
ProcListening ==
    [ProcStart({"--listen"}, KeyOf("key"), PortUnset) EXCEPT
        !.pc = "running", !.mode = "sse", !.created = TRUE,
        !.registered = CreateMcpServer.names, !.port = ListenPort(PortUnset)]

\* main(), called at module level as main().catch(console.error): help and
\* version print and process.exit(0); a missing key throws, the rejection is
\* handed to console.error and the process, with nothing left to run, ends
\* with exit code 0 (as it does when createMcpServer throws); otherwise the
\* server is created with its tools and either the HTTP listener or the one
\* stdio transport is started.
Main ==
    /\ proc.pc = "start"
    /\ IF WantsHelp(proc.argv)
       THEN /\ proc' = [proc EXCEPT !.pc = "exited", !.exitCode = "0", !.out = "help"]
            /\ UNCHANGED serverTransport
       ELSE IF WantsVersion(proc.argv)
       THEN /\ proc' = [proc EXCEPT !.pc = "exited", !.exitCode = "0",
                                    !.out = "version"]
            /\ UNCHANGED serverTransport
       ELSE IF KeyMissing(proc.apiKey) \/ CreateMcpServer.threw
       THEN /\ proc' = [proc EXCEPT !.pc = "exited", !.exitCode = "0",
                                    !.out = "error"]
            /\ UNCHANGED serverTransport
       ELSE IF Listen(proc.argv)
       THEN /\ proc' = [proc EXCEPT !.pc = "running", !.mode = "sse",
                                    !.created = TRUE,
                                    !.registered = CreateMcpServer.names,
                                    !.port = ListenPort(proc.portEnv)]
            /\ UNCHANGED serverTransport
       ELSE /\ proc' = [proc EXCEPT !.pc = "running", !.mode = "stdio",
                                    !.created = TRUE,
                                    !.registered = CreateMcpServer.names]
            /\ serverTransport' = StdioConn
    /\ UNCHANGED <<transports, opened, closed, nextConn, reqs>>
    /\ UNCHANGED <<toolVars, normVars, logVars>>

\* The TypeError thrown inside the async POST handler rejects a promise nobody
\* handles (Express 4 ignores a handler's return value): Node ends the process
\* with exit code 1.
UnhandledRejection(r) ==
    /\ proc.pc = "running"
    /\ reqs[r].pc = "threw"
    /\ proc' = [proc EXCEPT !.pc = "exited", !.exitCode = "1"]
    /\ UNCHANGED <<gatewayVars, toolVars, normVars, logVars>>

\* The same rejection under Express 5, which passes it to the error
\* middleware: the request is answered 500.
ErrorMiddleware(r) ==
    /\ proc.pc = "running"
    /\ reqs[r].pc = "threw"
    /\ reqs' = [reqs EXCEPT ![r] = [@ EXCEPT !.pc = "failed", !.status = 500]]
    /\ UNCHANGED <<transports, opened, closed, nextConn, serverTransport>>
    /\ UNCHANGED <<toolVars, normVars, procVars, logVars>>

\* Pipe mode: a message read from stdin is handed to the server, which calls
\* the tool handler.
StdioMessage(r) ==
    /\ proc.pc = "running"
    /\ proc.mode = "stdio"
    /\ reqs[r].pc = "new"
    /\ reqs' = [reqs EXCEPT ![r] =
           [@ EXCEPT !.pc = "backend", !.key = StdioConn, !.own = TRUE,
                     !.called = TRUE, !.dispatched = TRUE]]
    /\ UNCHANGED <<transports, opened, closed, nextConn, serverTransport>>
    /\ UNCHANGED <<toolVars, normVars, procVars, logVars>>

\* Pipe mode: the handler's result is written to stdout.
StdioRespond(r) ==
    /\ proc.pc = "running"
    /\ proc.mode = "stdio"
    /\ reqs[r].pc = "backend"
    /\ reqs' = [reqs EXCEPT ![r] =
           [@ EXCEPT !.pc = "done", !.writtenTo = serverTransport]]
    /\ UNCHANGED <<transports, opened, closed, nextConn, serverTransport>>
    /\ UNCHANGED <<toolVars, normVars, procVars, logVars>>

-----------------------------------------------------------------------------
(* Specifications *)

Next ==
    \/ OpenSSE
    \/ \E c \in ConnIds : CloseStream(c)
    \/ \E r \in ReqIds, key \in QueryKeys : PostMessages(r, key)
    \/ \E r \in ReqIds : Dispatch(r)
    \/ \E r \in ReqIds : Respond(r)

Init == GatewayInit /\ ToolIdle /\ NormIdle /\ LogIdle /\ proc = ProcListening

Spec == Init /\ [][Next]_vars

ToolInit ==
    GatewayInit /\ ToolIdle /\ NormIdle /\ LogIdle /\ proc = ProcListening

ToolSpec == ToolInit /\ [][ToolNext]_vars

\* Tool invocations with the backend calls bound to settle: a pending promise
\* of the backend client is resolved or rejected.
ToolFairSpec ==
    /\ ToolInit
    /\ [][ToolNext]_vars
    /\ WF_vars(\E outcome \in UNION {BackendOutcomes(tool) : tool \in Tools} :
                   BackendReturn(outcome))
    /\ WF_vars(\E threw \in BOOLEAN : SaveReturn(threw))

NormStart ==
    GatewayInit /\ ToolIdle /\ NormInit /\ LogIdle /\ proc = ProcListening

LogStart ==
    GatewayInit /\ ToolIdle /\ NormIdle /\ LogInit /\ proc = ProcListening

\* createSessionWithOptions run twice, on inputs that differ in the sensitive
\* members only.
LogSpec == LogStart /\ [][LogNext]_vars

NormSpec == NormStart /\ [][NormNext]_vars

\* The streaming-mode requests of a running process.
Serve ==
    /\ proc.pc = "running"
    /\ proc.mode = "sse"
    /\ Next

MainInit ==
    /\ GatewayInit
    /\ ToolIdle
    /\ NormIdle
    /\ LogIdle
    /\ proc \in {ProcStart(argv, key, portEnv) :
                    argv \in SUBSET Flags, key \in ApiKeys, portEnv \in PortEnvs}

MainNext ==
    \/ Main
    \/ Serve
    \/ \E r \in ReqIds : UnhandledRejection(r)
    \/ \E r \in ReqIds : ErrorMiddleware(r)
    \/ \E r \in ReqIds : StdioMessage(r)
    \/ \E r \in ReqIds : StdioRespond(r)

\* A process from its start: main(), then the requests of the mode it chose.
MainSpec == MainInit /\ [][MainNext]_vars

-----------------------------------------------------------------------------
(* Streaming mode: claims *)

\* C1: a POST /messages whose sessionId is not a key of the Connection Registry
\* is answered with status 400, and nothing is called or dispatched for it.
C1_UnknownIdAnswered400 ==
    \A r \in ReqIds :
        (reqs[r].pc # "new" /\ ~reqs[r].own) =>
            /\ reqs[r].status = 400
            /\ ~reqs[r].called
            /\ ~reqs[r].dispatched

\* C2: the Connection Registry holds exactly the connections opened and not yet
\* closed, each under its own id; with N opened and M closed it has N - M
\* entries, and a connection is out of the registry in the very state in which
\* its close is recorded.
C2_RegistryIsOpenedMinusClosed ==
    /\ DOMAIN transports = opened \ closed
    /\ Cardinality(DOMAIN transports) = Cardinality(opened) - Cardinality(closed)
    /\ \A c \in DOMAIN transports : transports[c] = c

C2_Witness ==
    /\ Cardinality(opened) = 2
    /\ Cardinality(closed) = 1
    /\ Cardinality(DOMAIN transports) = 1

\* C3: a POST /messages that arrives carrying the id of a connection already
\* closed is answered 400 and never handed on or dispatched, and a closed
\* connection is never in the registry again.
C3_ClosedIsTerminal ==
    /\ closed \cap DOMAIN transports = {}
    /\ \A r \in ReqIds :
        (reqs[r].pc # "new" /\ reqs[r].late) =>
            /\ reqs[r].pc = "rejected"
            /\ reqs[r].status = 400
            /\ ~reqs[r].called
            /\ ~reqs[r].dispatched

C3_Witness ==
    \E r \in ReqIds :
        /\ reqs[r].late
        /\ reqs[r].pc = "rejected"
        /\ reqs[r].key \in closed

\* C4: the response to a request that arrived with connection id A is written
\* to the stream stored for A, whatever other clients open or close meanwhile.
C4_ResponseOnOwnStream ==
    \A r \in ReqIds :
        reqs[r].pc = "done" => reqs[r].writtenTo = reqs[r].key

\* C5: once a connection's stream has closed, no message is dispatched for it
\* and no response is written on its stream handle, also for a POST that had
\* found the entry before the close.
C5_NoOperationOnClosed ==
    \A r \in ReqIds :
        /\ reqs[r].dispatchedLive
        /\ (reqs[r].pc = "done" /\ reqs[r].writtenTo = reqs[r].key)
               => reqs[r].writtenLive

-----------------------------------------------------------------------------
(* Tool invocation: claims *)

\* C6: for every tool, when the handler was called and its delegated backend
\* call threw, the invocation ends with a result that has isError = true and a
\* non-empty content, and nothing is raised to the caller.
C6_BackendExceptionBecomesErrorResult ==
    (inv.pc = "done" /\ inv.handlerCalled /\ inv.outcome.threw) =>
        /\ ~inv.raised
        /\ inv.result.isError
        /\ inv.result.content # <<>>

C6_Witness ==
    /\ inv.pc = "done"
    /\ inv.tool = "createSession"
    /\ inv.outcome.threw
    /\ inv.result.isError

\* C7: for every tool, when the backend call returned a response with a
\* non-empty error collection, the result is what reportAirtopErrors makes of
\* that collection, with isError = true.
C7_ReportedErrorsAreNormalized ==
    (/\ inv.pc = "done"
     /\ inv.handlerCalled
     /\ ~inv.outcome.threw
     /\ inv.outcome.errors.present
     /\ Len(inv.outcome.errors.items) > 0) =>
        /\ inv.result.isError
        /\ inv.result = ReportAirtopErrors(JArray(inv.outcome.errors.items)).result

\* The required inputs of each tool as the tool catalog lists them.
C8_RequiredInputs(tool) ==
    CASE tool = "createWindow" -> {"sessionId", "url"}
      [] tool = "pageQuery" -> {"sessionId", "windowId", "prompt"}
      [] tool = "terminateSession" -> {"sessionId"}
      [] tool = "getWindowInfo" -> {"sessionId", "windowId"}
      [] tool = "paginatedExtraction" -> {"sessionId", "windowId", "prompt"}
      [] tool = "click" -> {"sessionId", "windowId", "elementDescription"}
      [] tool = "scroll" -> {"sessionId", "windowId"}
      [] tool = "type" -> {"sessionId", "windowId", "text"}
      [] tool = "scrape" -> {"sessionId", "windowId"}
      [] tool = "fileInput" ->
            {"sessionId", "windowId", "elementDescription", "filePath"}
      [] tool = "monitorForCondition" -> {"sessionId", "windowId", "condition"}
      [] OTHER -> {}

C8_Violates(tool, a) ==
    \E f \in C8_RequiredInputs(tool) : a[f].t # "string"

\* C8: for every tool with a schema, an invocation whose arguments lack a
\* required field or give it a value of the wrong type ends at once with an
\* isError result: nothing is raised, the handler is not called, no backend
\* call is made and the Session Registry is as it was.
C8_SchemaViolationRejected ==
    (inv.pc # "idle" /\ HasSchema(inv.tool) /\ C8_Violates(inv.tool, inv.args)) =>
        /\ inv.pc = "done"
        /\ inv.result.isError
        /\ ~inv.raised
        /\ ~inv.handlerCalled
        /\ inv.backendCalls = 0
        /\ sessionRegistry = inv.regBefore

C8_Witness ==
    /\ inv.pc = "done"
    /\ inv.tool = "terminateSession"
    /\ inv.args["sessionId"] = Absent
    /\ inv.result.isError
    /\ ~inv.handlerCalled
    /\ DOMAIN sessionRegistry # {}

-----------------------------------------------------------------------------
(* Error Normalizer: claims *)

\* C9: reportAirtopErrors never throws and returns isError = true, whatever it
\* is given: an empty array, null or malformed elements, a non-array, an element
\* that cannot be serialized.
C9_NormalizerNeverThrows ==
    nout.state = "called" => (~nout.threw /\ nout.result.isError)

\* The text the claim gives an element.
C10_ElementText(e) ==
    IF e.k \in {"null", "undefined"} \/ e = JString("")
    THEN "Unknown error (empty)"
    ELSE IF e.k \in {"string", "message"} THEN e.s
    ELSE IF e.k = "object" THEN "{}"
    ELSE "[Circular]"

\* C10: for every sequence of errors the result has exactly one text block: the
\* banner, a newline, and the elements' texts joined by newlines in input
\* order, an element's text being the fixed text for a falsy element, the
\* string itself, the message, or else the element's serialization.
C10_ExactFormat ==
    (nout.state = "called" /\ nin.k = "array") =>
        /\ ~nout.threw
        /\ nout.result.content =
               <<[type |-> "text",
                  text |-> Banner \o "\n" \o
                      JoinLines([i \in 1..Len(nin.items) |->
                                    C10_ElementText(nin.items[i])])]>>

-----------------------------------------------------------------------------
(* The Session Registry: claims *)

\* C11: once the terminateSession handler has run for session id s, the
\* Session Registry holds no entry for s: whether or not one existed, and
\* whether the backend's terminate call is still pending, succeeded, reported
\* errors or threw.
C11_TerminatedSessionUntracked ==
    (inv.tool = "terminateSession" /\ inv.handlerCalled) =>
        inv.args["sessionId"].v \notin DOMAIN sessionRegistry

\* C11: a tracked session was terminated and the backend's call threw.
C11_Witness ==
    /\ inv.tool = "terminateSession"
    /\ inv.pc = "done"
    /\ inv.outcome.threw
    /\ inv.args["sessionId"].v \in DOMAIN inv.regBefore

\* C12: terminateSession for s leaves every entry under another key as it
\* was and adds none; for an s that has no entry the registry is unchanged and
\* the call, the backend succeeding, ends in success.
C12_OtherEntriesUntouched ==
    (inv.tool = "terminateSession" /\ inv.pc # "idle") =>
        LET s == inv.args["sessionId"].v IN
        /\ DOMAIN sessionRegistry \subseteq DOMAIN inv.regBefore
        /\ \A k \in DOMAIN inv.regBefore \ {s} :
               k \in DOMAIN sessionRegistry /\ sessionRegistry[k] = inv.regBefore[k]
        /\ s \notin DOMAIN inv.regBefore =>
               /\ sessionRegistry = inv.regBefore
               /\ (inv.pc = "done" /\ inv.handlerCalled /\ ~inv.outcome.threw) =>
                      (~inv.raised /\ ~inv.result.isError)

\* C12: terminateSession ran to its end for an id without an entry while
\* another session had one.
C12_Witness ==
    /\ inv.tool = "terminateSession"
    /\ inv.pc = "done"
    /\ inv.handlerCalled
    /\ inv.args["sessionId"].v \notin DOMAIN inv.regBefore
    /\ inv.regBefore # <<>>

\* The registry keys an invocation has set or changed so far.
C13_Recorded ==
    {s \in DOMAIN sessionRegistry :
        s \notin DOMAIN inv.regBefore \/ sessionRegistry[s] # inv.regBefore[s]}

\* C13: an invocation records a registry entry for s only if it is a
\* createSessionWithOptions call that was given a profile name, and only after
\* the backend's create returned, without throwing or reporting errors, a
\* session with id s; the entry carries that profile name. Every other
\* invocation, a plain createSession included, records nothing.
C13_OnlyProfileCreationTracks ==
    \A s \in C13_Recorded :
        /\ inv.tool = "createSessionWithOptions"
        /\ inv.pc \in {"save", "done"}
        /\ ~inv.outcome.threw
        /\ inv.outcome.errors.items = <<>>
        /\ inv.outcome.id = s
        /\ sessionRegistry[s].profileName \in ProfileNames
        /\ inv.args["profileName"] = AString(sessionRegistry[s].profileName)

\* C13: a createSessionWithOptions call has recorded a session that had no
\* entry before.
C13_Witness ==
    /\ inv.tool = "createSessionWithOptions"
    /\ inv.pc = "done"
    /\ inv.outcome.id \in DOMAIN sessionRegistry \ DOMAIN inv.regBefore

C15_EveryEntryReleased ==
    \A s \in SessionIds :
        (s \in DOMAIN sessionRegistry) ~> (s \notin DOMAIN sessionRegistry)

\* C19: an invocation issues each of its backend operations at most once,
\* whatever the backend answers: no call appears twice among the calls it has
\* made.
C19_NoRetry ==
    /\ inv.backendCalls = Len(inv.calls)
    /\ \A i, j \in DOMAIN inv.calls : inv.calls[i] = inv.calls[j] => i = j
    /\ inv.handlerCalled => inv.calls[1] = BackendOp(inv.tool)

\* C19: a handler has ended after its backend call threw.
C19_Witness ==
    /\ inv.pc = "done"
    /\ inv.outcome.threw
    /\ inv.calls = <<BackendOp(inv.tool)>>

\* C20: a call naming a tool that is not registered fails with UnknownTool:
\* no handler is called, no backend call is made, and neither the Session
\* Registry nor the Connection Registry changes.
C20_UnknownToolFails ==
    (inv.tool = Unregistered /\ inv.pc # "idle") =>
        /\ inv.pc = "done"
        /\ inv.failure = UnknownTool
        /\ ~inv.handlerCalled
        /\ inv.calls = <<>>
        /\ sessionRegistry = inv.regBefore
        /\ transports = <<>>

\* C20: an unregistered tool was named while a session was tracked.
C20_Witness ==
    /\ inv.tool = Unregistered
    /\ inv.pc = "done"
    /\ inv.regBefore # <<>>

\* C24: when saveProfileOnTermination throws inside createSessionWithOptions,
\* the creation still succeeds: the result is the envelope with the session
\* data, isError is not set, nothing is raised, and the registry entry recorded
\* for the new session id stays, with the profile name given.
C24_SaveFailureKeepsCreation ==
    (inv.tool = "createSessionWithOptions" /\ inv.pc = "done" /\ inv.saveThrew) =>
        /\ ~inv.raised
        /\ ~inv.result.isError
        /\ inv.result = TextResult(StringifyData(inv.outcome.id))
        /\ inv.outcome.id \in DOMAIN sessionRegistry
        /\ sessionRegistry[inv.outcome.id] =
               [sessionId |-> inv.outcome.id,
                profileName |-> inv.args["profileName"].v]

\* C24: a creation with a profile name has ended after the profile-save call
\* threw, for a session that had no entry before.
C24_Witness ==
    /\ inv.tool = "createSessionWithOptions"
    /\ inv.pc = "done"
    /\ inv.saveThrew
    /\ inv.calls = <<"sessions.create", SaveOp>>
    /\ inv.outcome.id \notin DOMAIN inv.regBefore

\* C25: a response whose error collection is present but empty is a success
\* for every tool: the handler returns its data envelope with isError unset.
C25_EmptyErrorsAreSuccess ==
    (/\ inv.pc = "done"
     /\ inv.handlerCalled
     /\ ~inv.outcome.threw
     /\ inv.outcome.errors.present
     /\ inv.outcome.errors.items = <<>>) =>
        /\ ~inv.result.isError
        /\ inv.result = SuccessResult(inv.tool, inv.outcome)

\* The strings written by a log: every part of every console call.
C26_Parts(log) == UNION {{log[i][j] : j \in DOMAIN log[i]} : i \in DOMAIN log}

\* The sensitive values of an input, and the API credential.
C26_Secrets(a) == ({a["proxy"].v, a["baseProfileId"].v} \ {""}) \cup {proc.apiKey.v}

\* C26: two createSessionWithOptions invocations that differ only in proxy or
\* baseProfileId and get the same backend answers write the same log, and no
\* part of what is written is a proxy value, a baseProfileId or the API key.
C26_LogIndependentOfSecrets ==
    logrun.state = "logged" =>
        /\ logrun.logA = logrun.logB
        /\ C26_Parts(logrun.logA) \cap C26_Secrets(logrun.a) = {}
        /\ C26_Parts(logrun.logB) \cap C26_Secrets(logrun.b) = {}

\* C26: two invocations, one with proxy credentials and one with a
\* baseProfileId, have both logged a failed profile-save call.
C26_Witness ==
    /\ logrun.state = "logged"
    /\ logrun.a["proxy"] = ProxyObject
    /\ logrun.b["proxy"] = Absent
    /\ logrun.b["baseProfileId"] # Absent
    /\ logrun.saveThrew
    /\ Tracks("createSessionWithOptions", logrun.a, logrun.outcome)
    /\ Len(logrun.logA) = 2
    /\ logrun.logA[2] = <<"Failed to configure profile saving: " \o ThrownText>>

-----------------------------------------------------------------------------
(* Startup and process lifetime: claims *)

\* C16: a process started without AIRTOP_API_KEY (unset or empty) and without
\* a help or version flag ends with a non-zero exit code, having created no
\* server and started no transport.
C16_MissingKeyExitsNonZero ==
    (/\ proc.pc # "start"
     /\ ~WantsHelp(proc.argv)
     /\ ~WantsVersion(proc.argv)
     /\ KeyMissing(proc.apiKey)) =>
        /\ proc.pc = "exited"
        /\ proc.exitCode \notin {NoExit, "0"}
        /\ ~proc.created
        /\ proc.mode = "none"
        /\ serverTransport = NoConn
        /\ opened = {}

\* C17: a process that has started successfully keeps running, whatever
\* requests it is sent.
C17_NoErrorTerminates ==
    proc.created => proc.pc = "running"

\* C18: the mode is fixed by the arguments at startup: streaming exactly when
\* --listen is among them, pipe otherwise, for as long as the process lives;
\* in pipe mode the server is connected to the one stdio transport and the
\* Connection Registry never gets an entry.
C18_ModeFixedAtStartup ==
    proc.created =>
        /\ proc.mode = IF "--listen" \in proc.argv THEN "sse" ELSE "stdio"
        /\ proc.mode = "stdio" =>
               /\ serverTransport = StdioConn
               /\ transports = <<>>
               /\ opened = {}
               /\ \A r \in ReqIds : reqs[r].key \in {NoConn, StdioConn}
        /\ proc.mode = "sse" => serverTransport # StdioConn

\* C18: a process started without --listen has answered a request on stdio.
C18_Witness ==
    /\ proc.mode = "stdio"
    /\ \E r \in ReqIds : reqs[r].pc = "done" /\ reqs[r].writtenTo = StdioConn

\* C21: the tool registry is fixed at startup. A process that gets past the
\* flags and the credential check creates the server with every tool of the
\* catalog registered, each name once, a refused (duplicate) registration
\* ending startup instead; no transport is connected and no request served
\* before that, and the registered set stays the same for as long as requests
\* are served.
C21_RegistryFixedAtStartup ==
    /\ (/\ proc.pc # "start"
        /\ ~WantsHelp(proc.argv)
        /\ ~WantsVersion(proc.argv)
        /\ ~KeyMissing(proc.apiKey)) => proc.created
    /\ proc.created =>
           /\ proc.registered = Tools
           /\ Cardinality(proc.registered) = Len(Registrations)
    /\ ~proc.created =>
           /\ proc.registered = {}
           /\ serverTransport = NoConn
           /\ opened = {}
           /\ \A r \in ReqIds : reqs[r].pc = "new"

\* C21: a streaming-mode process has answered a request on a connection.
C21_Witness ==
    /\ proc.mode = "sse"
    /\ proc.registered = Tools
    /\ \E r \in ReqIds : reqs[r].pc = "done" /\ reqs[r].writtenTo \in opened

\* C22: in streaming mode the server listens on port 3456 when PORT is not
\* set, and on the port PORT names when it is.
C22_ListensOnConfiguredPort ==
    proc.mode = "sse" =>
        proc.port = IF proc.portEnv.set THEN proc.portEnv.v ELSE "3456"

\* C23: with --help, -h, --version or -v among the arguments the process
\* prints and exits with code 0, the credential missing or not, and has
\* created no server, registered no tool and started no transport.
C23_HelpAndVersionExitZero ==
    (proc.pc # "start" /\ proc.argv \cap {"--help", "-h", "--version", "-v"} # {}) =>
        /\ proc.pc = "exited"
        /\ proc.exitCode = "0"
        /\ proc.out = IF proc.argv \cap {"--help", "-h"} # {} THEN "help"
                      ELSE "version"
        /\ ~proc.created
        /\ proc.registered = {}
        /\ proc.mode = "none"
        /\ serverTransport = NoConn
        /\ opened = {}

\* C23: a process given -v and no credential has exited.
C23_Witness ==
    /\ proc.pc = "exited"
    /\ proc.argv = {"-v"}
    /\ KeyMissing(proc.apiKey)
    /\ proc.out = "version"

TypeOK ==
    /\ DOMAIN transports \subseteq ConnIds
    /\ opened \subseteq ConnIds
    /\ closed \subseteq opened
    /\ nextConn \in 1..(MaxConns + 1)
    /\ serverTransport \in ConnIds \cup {NoConn, StdioConn}
    /\ proc.pc \in {"start", "running", "exited"}
    /\ proc.mode \in {"none", "sse", "stdio"}
    /\ proc.exitCode \in {NoExit, "0", "1"}

====
